---- MODULE Spec2Model ----
(***************************************************************************)
(* Type wrappers of graphql-js with memoisation (src/type/wrappers.js):    *)
(* GraphQLList and GraphQLNonNull over the wrapperCache WeakMap, wrapType, *)
(* and the predicates and unwrap helpers of type/definition that the       *)
(* wrappers and their tests use.                                           *)
(*                                                                         *)
(* Objects are references into a heap: heap[r] is the object r refers to.  *)
(* The six named types of the test file occupy references 1..6; every      *)
(* `new GraphQLList` / `new GraphQLNonNull` that completes appends one     *)
(* object.  Reference equality of the program is equality of references.   *)
(***************************************************************************)
EXTENDS Integers, Sequences, FiniteSets, TLC

VARIABLES
    base,          \* the named type the wrapType calls of a run start from
    heap,          \* the objects that exist: named types, then wrapper instances
    wrapperCache,  \* the WeakMap: inner type reference -> { ']' : ref, '!' : ref }
    firstRet,      \* history: <<ofType, specChar>> -> what the first plain call returned
    last,          \* the last top-level call and its outcome
    pc,            \* per caller: where it is in its plain call
    call,          \* per caller: the arguments of its call
    thisObjectMap, \* per caller: lookupOrMake's local, TRUE when it holds a map
    ret,           \* per caller: the value its call returned
    active         \* the caller whose call is on the stack, 0 when the stack is empty

vars == <<base, heap, wrapperCache, firstRet, last, pc, call, thisObjectMap, ret, active>>

\* ---------------------------------------------------------------- bounds
MaxObjs == 3
MaxSpecLen == 3
NCallers == 2

\* ---------------------------------------------------------------- values
\* Values that are not types: getNullableType(), getNullableType(null) and
\* isType({ what: 'is this' }) of the tests.
Undefined == 0
Null == -1
Garbage == -2

\* The named types the test file constructs, in its order.
ObjectType == 1
InterfaceType == 2
UnionType == 3
EnumType == 4
InputObjectType == 5
ScalarType == 6

NamedObj(c) == [cls |-> c, name |-> c, ofType |-> Undefined]

InitialHeap ==
    << NamedObj("Object"), NamedObj("Interface"), NamedObj("Union"),
       NamedObj("Enum"), NamedObj("InputObject"), NamedObj("Scalar") >>

NamedRefs == 1..Len(InitialHeap)
NonTypes == {Undefined, Null, Garbage}
Refs(h) == 1..Len(h)
WrapperRefs(h) == Refs(h) \ NamedRefs

\* The class a value is an instance of ("none" for a value that is no object
\* of the heap).
cls(h, v) == IF v \in Refs(h) THEN h[v].cls ELSE "none"

\* ------------------------------------------------- type/definition predicates
isScalarType(h, v) == cls(h, v) = "Scalar"
isObjectType(h, v) == cls(h, v) = "Object"
isInterfaceType(h, v) == cls(h, v) = "Interface"
isUnionType(h, v) == cls(h, v) = "Union"
isEnumType(h, v) == cls(h, v) = "Enum"
isInputObjectType(h, v) == cls(h, v) = "InputObject"
isListType(h, v) == cls(h, v) = "List"
isNonNullType(h, v) == cls(h, v) = "NonNull"

isType(h, v) ==
    \/ isScalarType(h, v)
    \/ isObjectType(h, v)
    \/ isInterfaceType(h, v)
    \/ isUnionType(h, v)
    \/ isEnumType(h, v)
    \/ isInputObjectType(h, v)
    \/ isListType(h, v)
    \/ isNonNullType(h, v)

isWrappingType(h, v) == isListType(h, v) \/ isNonNullType(h, v)
isNullableType(h, v) == isType(h, v) /\ ~isNonNullType(h, v)
isNamedType(h, v) == isType(h, v) /\ ~isWrappingType(h, v)

RECURSIVE isInputType(_, _)
isInputType(h, v) ==
    \/ isScalarType(h, v)
    \/ isEnumType(h, v)
    \/ isInputObjectType(h, v)
    \/ (isWrappingType(h, v) /\ isInputType(h, h[v].ofType))

RECURSIVE isOutputType(_, _)
isOutputType(h, v) ==
    \/ isScalarType(h, v)
    \/ isObjectType(h, v)
    \/ isInterfaceType(h, v)
    \/ isUnionType(h, v)
    \/ isEnumType(h, v)
    \/ (isWrappingType(h, v) /\ isOutputType(h, h[v].ofType))

\* assertType / assertNullableType: TRUE when the assertion passes, FALSE when
\* it throws.
assertType(h, v) == isType(h, v)
assertNullableType(h, v) == isNullableType(h, v)

getNullableType(h, v) ==
    IF v \in {Undefined, Null} THEN Undefined
    ELSE IF isNonNullType(h, v) THEN h[v].ofType
    ELSE v

RECURSIVE getNamedType(_, _)
getNamedType(h, v) ==
    IF v \in {Undefined, Null} THEN Undefined
    ELSE IF isWrappingType(h, v) THEN getNamedType(h, h[v].ofType)
    ELSE v

\* String(type): a named type prints its name, a list '[' + inner + ']', a
\* non-null inner + '!'.  Strings are sequences of tokens.
RECURSIVE String(_, _)
String(h, v) ==
    IF isListType(h, v) THEN <<"[">> \o String(h, h[v].ofType) \o <<"]">>
    ELSE IF isNonNullType(h, v) THEN String(h, h[v].ofType) \o <<"!">>
    ELSE <<h[v].name>>

\* ---------------------------------------------------------------- the world
\* The shared state a call reads and writes, and a call's outcome.
World == [heap |-> heap, cache |-> wrapperCache, rets |-> firstRet]

Return(w, v) == [w |-> w, ok |-> TRUE, res |-> v]
Throw(w) == [w |-> w, ok |-> FALSE, res |-> Undefined]

\* `new cls(ofType)` that completes: one more object.
Alloc(w, c, ofType) ==
    Return([w EXCEPT !.heap = Append(@, [cls |-> c, name |-> "", ofType |-> ofType])],
           Len(w.heap) + 1)

\* As NewGraphQLList, with this.ofType set to something that is not the
\* asserted type.
NewGraphQLListLosesOfType(w, ofType) ==
    IF assertType(w.heap, ofType) THEN Alloc(w, "List", Garbage) ELSE Throw(w)

\* GraphQLList called with `new`: this.ofType = assertType(ofType).
NewGraphQLList(w, ofType) ==
    IF assertType(w.heap, ofType) THEN Alloc(w, "List", ofType) ELSE Throw(w)

\* As NewGraphQLNonNull, asserting with assertType as GraphQLList does.
NewNonNullUnchecked(w, ofType) ==
    IF assertType(w.heap, ofType) THEN Alloc(w, "NonNull", ofType) ELSE Throw(w)

\* As NewGraphQLNonNull, with this.ofType set to something that is not the
\* asserted type.
NewGraphQLNonNullLosesOfType(w, ofType) ==
    IF assertNullableType(w.heap, ofType) THEN Alloc(w, "NonNull", Garbage) ELSE Throw(w)

\* GraphQLNonNull called with `new`: this.ofType = assertNullableType(ofType).
NewGraphQLNonNull(w, ofType) ==
    IF assertNullableType(w.heap, ofType) THEN Alloc(w, "NonNull", ofType) ELSE Throw(w)

\* new cons(ofType)
New(w, cons, ofType) ==
    IF cons = "List" THEN NewGraphQLList(w, ofType) ELSE NewGraphQLNonNull(w, ofType)

\* ---------------------------------------------------------------- the cache
EmptyMap == [c \in {} |-> Undefined]

\* As NoMap, taking the map to be missing on every call.
NoMapAlways(cache, ofType) == TRUE

\* !thisObjectMap, for thisObjectMap = wrapperCache.get(ofType)
NoMap(cache, ofType) == ofType \notin DOMAIN cache

\* wrapperCache.set(ofType, thisObjectMap = {})
SetMap(cache, ofType) ==
    [k \in DOMAIN cache \cup {ofType} |-> IF k = ofType THEN EmptyMap ELSE cache[k]]

\* As NoSlot, taking the slot to be empty on every call.
NoSlotAlways(cache, ofType, specChar) == TRUE

\* !thisObjectMap[specChar]
NoSlot(cache, ofType, specChar) == specChar \notin DOMAIN cache[ofType]

\* thisObjectMap[specChar] = v
SetSlot(cache, ofType, specChar, v) ==
    [cache EXCEPT ![ofType] =
        [c \in DOMAIN @ \cup {specChar} |-> IF c = specChar THEN v ELSE @[c]]]

\* lookupOrMake: get the map of ofType or register an empty one, construct and
\* store the wrapper when the slot is empty, return the slot.  A throwing
\* constructor leaves the registered map behind.
lookupOrMake(w, ofType, specChar, cons) ==
    LET w1 == IF NoMap(w.cache, ofType)
              THEN [w EXCEPT !.cache = SetMap(@, ofType)]
              ELSE w
        made == New(w1, cons, ofType)
    IN  IF NoSlot(w1.cache, ofType, specChar)
        THEN IF made.ok
             THEN Return([made.w EXCEPT !.cache = SetSlot(@, ofType, specChar, made.res)],
                         made.res)
             ELSE Throw(w1)
        ELSE Return(w1, w1.cache[ofType][specChar])

\* History: what the first plain call for <<ofType, specChar>> returned.
Observe(r, ofType, specChar) ==
    IF ~r.ok \/ <<ofType, specChar>> \in DOMAIN r.w.rets THEN r
    ELSE [r EXCEPT !.w.rets = (<<ofType, specChar>> :> r.res) @@ @]

\* As GraphQLList, asserting the argument after lookupOrMake instead of before.
GraphQLListAssertsLate(w, ofType) ==
    LET r == lookupOrMake(w, ofType, "]", "List")
    IN  IF r.ok /\ assertType(r.w.heap, ofType)
        THEN Observe(r, ofType, "]")
        ELSE Throw(r.w)

\* GraphQLList called without `new`.
GraphQLList(w, ofType) ==
    IF assertType(w.heap, ofType)
    THEN Observe(lookupOrMake(w, ofType, "]", "List"), ofType, "]")
    ELSE Throw(w)

\* As GraphQLNonNull, handing lookupOrMake the GraphQLList constructor.
GraphQLNonNullMakesList(w, ofType) ==
    IF assertNullableType(w.heap, ofType)
    THEN Observe(lookupOrMake(w, ofType, "!", "List"), ofType, "!")
    ELSE Throw(w)

\* GraphQLNonNull called without `new`.
GraphQLNonNull(w, ofType) ==
    IF assertNullableType(w.heap, ofType)
    THEN Observe(lookupOrMake(w, ofType, "!", "NonNull"), ofType, "!")
    ELSE Throw(w)

\* ---------------------------------------------------------------- wrapType
\* As wrapStep, with the two cases of the switch exchanged.
wrapStepSwapped(w, type, specChar) ==
    IF specChar = "]" THEN GraphQLNonNull(w, type)
    ELSE IF specChar = "!" THEN GraphQLList(w, type)
    ELSE Throw(w)

\* The reduce callback: one marker applied to the running result.
wrapStep(w, type, specChar) ==
    IF specChar = "]" THEN GraphQLList(w, type)
    ELSE IF specChar = "!" THEN GraphQLNonNull(w, type)
    ELSE Throw(w)

\* wrapSpec.split('').reduce(callback, ofType): left to right, a throw ends it.
RECURSIVE reduce(_, _, _)
reduce(acc, wrapSpec, i) ==
    IF ~acc.ok \/ i > Len(wrapSpec) THEN acc
    ELSE reduce(wrapStep(acc.w, acc.res, wrapSpec[i]), wrapSpec, i + 1)

\* As wrapType, without the invariant on the empty wrapSpec.
wrapTypeNoInvariant(w, ofType, wrapSpec) == reduce(Return(w, ofType), wrapSpec, 1)

Reverse(s) == [i \in 1..Len(s) |-> s[Len(s) + 1 - i]]

\* As wrapType, reducing from the right.
wrapTypeRight(w, ofType, wrapSpec) ==
    IF wrapSpec = <<>> THEN Throw(w)
    ELSE reduce(Return(w, ofType), Reverse(wrapSpec), 1)

\* As wrapType, with the cache and the instances restored when the reduce throws.
wrapTypeAllOrNothing(w, ofType, wrapSpec) ==
    LET r == reduce(Return(w, ofType), wrapSpec, 1)
    IN  IF wrapSpec = <<>> \/ ~r.ok THEN Throw(w) ELSE r

\* invariant(wrapSpec !== ''), then the reduce over the characters.
wrapType(w, ofType, wrapSpec) ==
    IF wrapSpec = <<>> THEN Throw(w)
    ELSE reduce(Return(w, ofType), wrapSpec, 1)

\* ------------------------------------------------------- calls, one at a time
Callers == 1..NCallers

\* The tests wrap ObjectType two and three markers deep ('!]', ']!', '!]!');
\* a run that wraps ObjectType gets one more object and the full wrapSpec
\* length, a run that wraps another named type one marker less.
DeepBases == {ObjectType}
MaxHeap == Len(InitialHeap) + (IF base \in DeepBases THEN MaxObjs + 1 ELSE MaxObjs)
MaxLen == IF base \in DeepBases THEN MaxSpecLen ELSE MaxSpecLen - 1

IdleCallers ==
    /\ pc = [c \in Callers |-> "idle"]
    /\ call = [c \in Callers |-> [ofType |-> Undefined, specChar |-> "]"]]
    /\ thisObjectMap = [c \in Callers |-> FALSE]
    /\ ret = [c \in Callers |-> Undefined]
    /\ active = 0

EmptyWorld ==
    /\ heap = InitialHeap
    /\ wrapperCache = [k \in {} |-> EmptyMap]
    /\ firstRet = [k \in {} |-> Undefined]
    /\ last = [op |-> "none", arg |-> Undefined, spec |-> <<>>, ok |-> TRUE,
               res |-> Undefined]

\* A top-level call that ran to completion with outcome r.
Completes(op, arg, spec, r) ==
    /\ Len(r.w.heap) <= MaxHeap
    /\ heap' = r.w.heap
    /\ wrapperCache' = r.w.cache
    /\ firstRet' = r.w.rets
    /\ last' = [op |-> op, arg |-> arg, spec |-> spec, ok |-> r.ok, res |-> r.res]
    /\ UNCHANGED <<base, pc, call, thisObjectMap, ret, active>>

\* The arguments the constructor calls are tried with.
CtorNamed == {ObjectType, InputObjectType}
CtorArgs == CtorNamed \cup WrapperRefs(heap) \cup NonTypes

CallGraphQLList(v) == Completes("GraphQLList", v, <<>>, GraphQLList(World, v))
CallNewGraphQLList(v) == Completes("new GraphQLList", v, <<>>, NewGraphQLList(World, v))
CallGraphQLNonNull(v) == Completes("GraphQLNonNull", v, <<>>, GraphQLNonNull(World, v))
CallNewGraphQLNonNull(v) ==
    Completes("new GraphQLNonNull", v, <<>>, NewGraphQLNonNull(World, v))

Init == base = Undefined /\ EmptyWorld /\ IdleCallers

Next ==
    \/ \E v \in CtorArgs : CallGraphQLList(v)
    \/ \E v \in CtorArgs : CallNewGraphQLList(v)
    \/ \E v \in CtorArgs : CallGraphQLNonNull(v)
    \/ \E v \in CtorArgs : CallNewGraphQLNonNull(v)

Spec == Init /\ [][Next]_vars

\* ------------------------------------------------------- wrapType calls
Markers == {"]", "!", "x"}
RECURSIVE SpecsOfLen(_)
SpecsOfLen(n) ==
    IF n = 0 THEN {<<>>}
    ELSE {Append(s, m) : s \in SpecsOfLen(n - 1), m \in Markers}
WrapSpecs == UNION {SpecsOfLen(n) : n \in 0..MaxLen}

CallWrapType(s) ==
    \E r \in {wrapType(World, base, s)} : Completes("wrapType", base, s, r)

InitWrap == base \in NamedRefs /\ EmptyWorld /\ IdleCallers

NextWrap == \E s \in WrapSpecs : CallWrapType(s)

SpecWrap == InitWrap /\ [][NextWrap]_vars

\* The constructor a plain call hands to lookupOrMake with its marker.
ClsOf(k) == IF k = "]" THEN "List" ELSE "NonNull"

\* ------------------------------------------------------- callers taking turns
\* Several callers (callbacks of the host) each want a plain call
\* GraphQLList(ofType) or GraphQLNonNull(ofType).  JavaScript runs a call to
\* completion: lookupOrMake neither awaits nor yields and the constructors do
\* not call back, so a caller enters only when the stack is empty (active = 0)
\* and only the caller on the stack takes steps.
ConcArgs == {ObjectType} \cup WrapperRefs(heap)

Asserted(c) ==
    IF call[c].specChar = "]" THEN assertType(heap, call[c].ofType)
    ELSE assertNullableType(heap, call[c].ofType)

\* A callback that will wrap v is scheduled.
Schedule(c, v, k) ==
    /\ pc[c] = "idle"
    /\ call' = [call EXCEPT ![c] = [ofType |-> v, specChar |-> k]]
    /\ pc' = [pc EXCEPT ![c] = "queued"]
    /\ UNCHANGED <<base, heap, wrapperCache, firstRet, last, thisObjectMap, ret, active>>

\* The host runs the callback: the plain branch asserts its argument and calls
\* lookupOrMake, or throws.
Enter(c) ==
    /\ pc[c] = "queued"
    /\ active = 0
    /\ Len(heap) < MaxHeap
    /\ IF Asserted(c)
       THEN pc' = [pc EXCEPT ![c] = "get"] /\ active' = c
       ELSE pc' = [pc EXCEPT ![c] = "threw"] /\ active' = 0
    /\ UNCHANGED <<base, heap, wrapperCache, firstRet, last, call, thisObjectMap, ret>>

\* let thisObjectMap = wrapperCache.get(ofType)
Get(c) ==
    /\ pc[c] = "get"
    /\ active = c
    /\ thisObjectMap' = [thisObjectMap EXCEPT ![c] = ~NoMap(wrapperCache, call[c].ofType)]
    /\ pc' = [pc EXCEPT ![c] = "test map"]
    /\ UNCHANGED <<base, heap, wrapperCache, firstRet, last, call, ret, active>>

\* if (!thisObjectMap) wrapperCache.set(ofType, (thisObjectMap = {}))
MakeMap(c) ==
    /\ pc[c] = "test map"
    /\ active = c
    /\ IF thisObjectMap[c]
       THEN UNCHANGED <<wrapperCache, thisObjectMap>>
       ELSE /\ wrapperCache' = SetMap(wrapperCache, call[c].ofType)
            /\ thisObjectMap' = [thisObjectMap EXCEPT ![c] = TRUE]
    /\ pc' = [pc EXCEPT ![c] = "test slot"]
    /\ UNCHANGED <<base, heap, firstRet, last, call, ret, active>>

\* if (!thisObjectMap[specChar]) ... new cons(ofType)
Construct(c) ==
    /\ pc[c] = "test slot"
    /\ active = c
    /\ IF NoSlot(wrapperCache, call[c].ofType, call[c].specChar)
       THEN LET made == New(World, ClsOf(call[c].specChar), call[c].ofType)
            IN  /\ heap' = made.w.heap
                /\ ret' = [ret EXCEPT ![c] = made.res]
                /\ pc' = [pc EXCEPT ![c] = "store"]
       ELSE /\ pc' = [pc EXCEPT ![c] = "return"]
            /\ UNCHANGED <<heap, ret>>
    /\ UNCHANGED <<base, wrapperCache, firstRet, last, call, thisObjectMap, active>>

\* thisObjectMap[specChar] = (the new wrapper)
Store(c) ==
    /\ pc[c] = "store"
    /\ active = c
    /\ wrapperCache' = SetSlot(wrapperCache, call[c].ofType, call[c].specChar, ret[c])
    /\ pc' = [pc EXCEPT ![c] = "return"]
    /\ UNCHANGED <<base, heap, firstRet, last, call, thisObjectMap, ret, active>>

\* return thisObjectMap[specChar]
Leave(c) ==
    /\ pc[c] = "return"
    /\ active = c
    /\ ret' = [ret EXCEPT ![c] = wrapperCache[call[c].ofType][call[c].specChar]]
    /\ pc' = [pc EXCEPT ![c] = "done"]
    /\ active' = 0
    /\ UNCHANGED <<base, heap, wrapperCache, firstRet, last, call, thisObjectMap>>

\* The caller has used its result and is free to call again.
Resume(c) ==
    /\ pc[c] \in {"done", "threw"}
    /\ pc' = [pc EXCEPT ![c] = "idle"]
    /\ ret' = [ret EXCEPT ![c] = Undefined]
    /\ thisObjectMap' = [thisObjectMap EXCEPT ![c] = FALSE]
    /\ UNCHANGED <<base, heap, wrapperCache, firstRet, last, call, active>>

InitConc == base = Undefined /\ EmptyWorld /\ IdleCallers

NextConc ==
    \E c \in Callers :
        \/ \E v \in ConcArgs, k \in {"]", "!"} : Schedule(c, v, k)
        \/ Enter(c)
        \/ Get(c)
        \/ MakeMap(c)
        \/ Construct(c)
        \/ Store(c)
        \/ Leave(c)
        \/ Resume(c)

SpecConc == InitConc /\ [][NextConc]_vars

\* =================================================================== claims
\* The marker a constructor stores its wrappers under.
CharOf(op) == IF op = "GraphQLList" THEN "]" ELSE "!"
PlainOps == {"GraphQLList", "GraphQLNonNull"}
NonNullOps == {"GraphQLNonNull", "new GraphQLNonNull"}

\* The wrappers of the heap that wrap ofType in class c.
InstancesOf(c, ofType) ==
    {r \in WrapperRefs(heap) : heap[r].cls = c /\ heap[r].ofType = ofType}

\* C1: every successful plain call GraphQLList(X) / GraphQLNonNull(X) returns
\* the instance the first such call returned, and that instance stays in its
\* cache slot whatever calls (successful or failed, plain or `new`, on X or on
\* other inner types) come later.
C1_IdentityMemoization ==
    /\ (last.op \in PlainOps /\ last.ok)
          => /\ <<last.arg, CharOf(last.op)>> \in DOMAIN firstRet
             /\ last.res = firstRet[<<last.arg, CharOf(last.op)>>]
    /\ \A key \in DOMAIN firstRet :
          /\ key[1] \in DOMAIN wrapperCache
          /\ key[2] \in DOMAIN wrapperCache[key[1]]
          /\ wrapperCache[key[1]][key[2]] = firstRet[key]

\* A plain GraphQLList(X) returned an instance made before the newest object,
\* which is another List of the same X (made with `new` in between).
C1_Witness ==
    /\ last.op = "GraphQLList"
    /\ last.ok
    /\ last.res < Len(heap)
    /\ heap[Len(heap)] = heap[last.res]
    /\ \E y \in DOMAIN wrapperCache : y # last.arg

\* C2 (as claimed): at most one List instance and at most one NonNull instance
\* per inner type exists, whichever way the constructors are invoked.
C2_OneInstancePerPair ==
    \A r1, r2 \in WrapperRefs(heap) :
        (heap[r1].cls = heap[r2].cls /\ heap[r1].ofType = heap[r2].ofType) => r1 = r2

\* C4: NonNull over a NonNull always fails, and no NonNull instance wraps a
\* NonNull: its ofType is a named type or a List.
C4_NonNullLegality ==
    /\ (last.op \in NonNullOps /\ isNonNullType(heap, last.arg)) => ~last.ok
    /\ \A r \in WrapperRefs(heap) :
          isNonNullType(heap, r)
              => (isNamedType(heap, heap[r].ofType) \/ isListType(heap, heap[r].ofType))

\* `new GraphQLNonNull` was tried on a NonNull instance and threw.
C4_Witness ==
    /\ last.op = "new GraphQLNonNull"
    /\ isNonNullType(heap, last.arg)
    /\ ~last.ok

\* C3: callers that wrap the same (ofType, specChar) while others are queued
\* or done all receive one instance: the wrapper a finished caller holds is
\* the only instance of its kind over that inner type, it is still the one in
\* the cache slot, and any two finished callers of the same pair hold the same
\* reference.
C3_OneWinner ==
    /\ \A c \in Callers :
          pc[c] = "done"
              => /\ InstancesOf(ClsOf(call[c].specChar), call[c].ofType) = {ret[c]}
                 /\ ~NoMap(wrapperCache, call[c].ofType)
                 /\ ~NoSlot(wrapperCache, call[c].ofType, call[c].specChar)
                 /\ wrapperCache[call[c].ofType][call[c].specChar] = ret[c]
    /\ \A c, d \in Callers :
          (pc[c] = "done" /\ pc[d] = "done" /\ call[c] = call[d]) => ret[c] = ret[d]

\* Two callers have both finished a call for the same pair, the second one
\* having found the wrapper made for the first.
C3_Witness ==
    /\ pc[1] = "done"
    /\ pc[2] = "done"
    /\ call[1] = call[2]
    /\ ret[1] = ret[2]
    /\ isWrappingType(heap, ret[1])

\* ------------------------------------------------------- claims about wrapType
WrapOk == last.op = "wrapType" /\ last.ok

\* The markers of a type, innermost first, read off its ofType chain.
RECURSIVE MarkersOf(_, _)
MarkersOf(h, v) ==
    IF cls(h, v) = "List" THEN Append(MarkersOf(h, h[v].ofType), "]")
    ELSE IF cls(h, v) = "NonNull" THEN Append(MarkersOf(h, h[v].ofType), "!")
    ELSE <<>>

\* The value at the bottom of a type's ofType chain.
RECURSIVE BottomOf(_, _)
BottomOf(h, v) ==
    IF cls(h, v) \in {"List", "NonNull"} THEN BottomOf(h, h[v].ofType) ELSE v

\* What GraphQLList / GraphQLNonNull applied one after the other in the order
\* of s return in this state when every wrapper on the way is cached
\* (Undefined when one is not).
RECURSIVE CachedChain(_, _, _)
CachedChain(v, s, i) ==
    IF i > Len(s) THEN v
    ELSE IF v \in DOMAIN wrapperCache /\ s[i] \in DOMAIN wrapperCache[v]
         THEN CachedChain(wrapperCache[v][s[i]], s, i + 1)
         ELSE Undefined

NameOf(v) == heap[v].name

\* C5: a successful wrapType(X, S) returns the type whose ofType chain is S
\* read left to right over X, which is the instance the nested plain calls
\* return; '!]' gives List of NonNull of X printing [X!], ']!' gives NonNull
\* of List of X printing [X]!, and the two are different instances.
C5_WrapTypeFold ==
    WrapOk =>
        /\ MarkersOf(heap, last.res) = last.spec
        /\ BottomOf(heap, last.res) = last.arg
        /\ last.res = CachedChain(last.arg, last.spec, 1)
        /\ last.spec = <<"!", "]">> =>
              /\ isListType(heap, last.res) /\ ~isNonNullType(heap, last.res)
              /\ isNonNullType(heap, heap[last.res].ofType)
              /\ heap[heap[last.res].ofType].ofType = last.arg
              /\ String(heap, last.res) = <<"[", NameOf(last.arg), "!", "]">>
              /\ CachedChain(last.arg, <<"]", "!">>, 1) # last.res
        /\ last.spec = <<"]", "!">> =>
              /\ isNonNullType(heap, last.res) /\ ~isListType(heap, last.res)
              /\ isListType(heap, heap[last.res].ofType)
              /\ heap[heap[last.res].ofType].ofType = last.arg
              /\ String(heap, last.res) = <<"[", NameOf(last.arg), "]", "!">>
              /\ CachedChain(last.arg, <<"!", "]">>, 1) # last.res

\* wrapType(X, '!]') has returned while the ']!' wrapping of X exists too.
C5_Witness ==
    /\ WrapOk
    /\ last.spec = <<"!", "]">>
    /\ CachedChain(last.arg, <<"]", "!">>, 1) # Undefined

\* C6: getNamedType of what a successful wrapType(X, S) returned is X itself;
\* every wrapper's ofType is an older object, so the chain getNamedType
\* follows is finite and ends in a named type.
C6_UnwrapRoundTrip ==
    /\ WrapOk => getNamedType(heap, last.res) = last.arg
    /\ \A r \in WrapperRefs(heap) :
          /\ heap[r].ofType \in 1..(r - 1)
          /\ isNamedType(heap, getNamedType(heap, r))

\* The deep case of the tests: wrapType(X, '!]!').
C6_Witness ==
    /\ WrapOk
    /\ last.spec = <<"!", "]", "!">>
    /\ getNamedType(heap, last.res) = base

\* The base-variant predicates that are true of a value.
TruePredicates(h, v) ==
    UNION { IF isScalarType(h, v) THEN {"Scalar"} ELSE {},
            IF isObjectType(h, v) THEN {"Object"} ELSE {},
            IF isInterfaceType(h, v) THEN {"Interface"} ELSE {},
            IF isUnionType(h, v) THEN {"Union"} ELSE {},
            IF isEnumType(h, v) THEN {"Enum"} ELSE {},
            IF isInputObjectType(h, v) THEN {"InputObject"} ELSE {},
            IF isListType(h, v) THEN {"List"} ELSE {},
            IF isNonNullType(h, v) THEN {"NonNull"} ELSE {} }

\* C7: of every type exactly one of the eight base-variant predicates is true:
\* of a named type the one of its own variant, of what wrapType returned the
\* one of its outermost marker, whatever variant is wrapped.
C7_Exclusivity ==
    /\ \A v \in Refs(heap) : Cardinality(TruePredicates(heap, v)) = 1
    /\ \A v \in NamedRefs : TruePredicates(heap, v) = {NameOf(v)}
    /\ WrapOk =>
          TruePredicates(heap, last.res)
              = {IF last.spec[Len(last.spec)] = "]" THEN "List" ELSE "NonNull"}

\* A NonNull of a List and a List both exist over the wrapped named type.
C7_Witness ==
    /\ WrapOk
    /\ last.spec = <<"]", "!">>
    /\ TruePredicates(heap, last.res) = {"NonNull"}
    /\ TruePredicates(heap, heap[last.res].ofType) = {"List"}

InputVariants == {"Scalar", "Enum", "InputObject"}
OutputVariants == {"Scalar", "Object", "Interface", "Union", "Enum"}

\* C8: a type is an input type exactly when the named type at the bottom of
\* its wrapping is a Scalar, Enum or InputObject, and an output type exactly
\* when that is a Scalar, Object, Interface, Union or Enum; List(NonNull(IO))
\* is an input type and not an output type.
C8_InputOutput ==
    /\ \A v \in Refs(heap) :
          /\ isInputType(heap, v) <=> cls(heap, BottomOf(heap, v)) \in InputVariants
          /\ isOutputType(heap, v) <=> cls(heap, BottomOf(heap, v)) \in OutputVariants
    /\ WrapOk =>
          /\ isInputType(heap, last.res) <=> cls(heap, last.arg) \in InputVariants
          /\ isOutputType(heap, last.res) <=> cls(heap, last.arg) \in OutputVariants
    /\ (WrapOk /\ last.arg = InputObjectType /\ last.spec = <<"!", "]">>) =>
          isInputType(heap, last.res) /\ ~isOutputType(heap, last.res)

C8_Witness ==
    /\ WrapOk
    /\ last.arg = InputObjectType
    /\ last.spec = <<"!", "]">>
    /\ isInputType(heap, last.res)
    /\ ~isOutputType(heap, last.res)

\* What getNullableType returns, case by case.
SingleStepUnwrap ==
    /\ getNullableType(heap, Undefined) = Undefined
    /\ getNullableType(heap, Null) = Undefined
    /\ \A v \in Refs(heap) :
          IF isNonNullType(heap, v)
          THEN getNullableType(heap, v) = heap[v].ofType
          ELSE getNullableType(heap, v) = v
    /\ WrapOk =>
          IF last.spec[Len(last.spec)] = "!"
          THEN getNullableType(heap, last.res)
                   = CachedChain(last.arg, SubSeq(last.spec, 1, Len(last.spec) - 1), 1)
          ELSE getNullableType(heap, last.res) = last.res

\* C9 (as claimed): getNullableType is the single-step unwrap and its result
\* always satisfies isNullableType, for an absent argument too.
C9_ResultAlwaysNullable ==
    /\ SingleStepUnwrap
    /\ \A v \in Refs(heap) \cup {Undefined, Null} :
          isNullableType(heap, getNullableType(heap, v))

\* C9 (amended): getNullableType is the single-step unwrap (undefined for an
\* absent argument, the immediate ofType of a NonNull, the argument itself
\* otherwise) and its result satisfies isNullableType whenever the argument is
\* a type.
C9_SingleStepUnwrap ==
    /\ SingleStepUnwrap
    /\ \A v \in Refs(heap) : isNullableType(heap, getNullableType(heap, v))

\* A NonNull of a List exists: one step down is the List, not the named type.
C9_Witness ==
    /\ WrapOk
    /\ last.spec = <<"]", "!">>
    /\ getNullableType(heap, last.res) = heap[last.res].ofType
    /\ isListType(heap, getNullableType(heap, last.res))
    /\ getNullableType(heap, last.res) # getNamedType(heap, last.res)

\* C10: wrapType with an empty wrapSpec, or with a wrapSpec holding a
\* character other than ']' and '!', throws and returns no type.
BadSpec(s) == s = <<>> \/ \E i \in 1..Len(s) : s[i] \notin {"]", "!"}

C10_BadSpecThrows ==
    (last.op = "wrapType" /\ BadSpec(last.spec))
        => (~last.ok /\ ~isType(heap, last.res) /\ last.res # last.arg)

\* wrapType(X, '') has thrown.
C10_Witness ==
    /\ last.op = "wrapType"
    /\ last.spec = <<>>
    /\ ~last.ok

\* ------------------------------------------------ claims about failed calls
CtorOps == {"GraphQLList", "new GraphQLList", "GraphQLNonNull", "new GraphQLNonNull"}

\* The argument v fails the assertion the constructor op makes first.
Rejected(h, op, v) ==
    IF op \in NonNullOps THEN ~assertNullableType(h, v) ELSE ~assertType(h, v)

\* Every entry of cache a is an entry of cache b.
CacheWithin(a, b) ==
    \A k \in DOMAIN a :
        /\ k \in DOMAIN b
        /\ \A c \in DOMAIN a[k] : c \in DOMAIN b[k] /\ b[k][c] = a[k][c]

\* C11: a call of GraphQLList(v) with v not a type, or of GraphQLNonNull(v)
\* with v not a nullable type (with or without `new`), throws and leaves the
\* wrapper cache (its keys and every slot) and the set of wrapper instances
\* as they were before the call.
C11_RejectedLeavesCache ==
    [][ (last'.op \in CtorOps /\ Rejected(heap, last'.op, last'.arg))
           => /\ ~last'.ok
              /\ ~isType(heap', last'.res)
              /\ wrapperCache' = wrapperCache
              /\ heap' = heap
              /\ firstRet' = firstRet ]_vars

\* GraphQLNonNull(v) was rejected for a v that is itself a cached NonNull,
\* and v is no key of the cache and has no wrapper.
C11_Witness ==
    /\ last.op = "GraphQLNonNull"
    /\ ~last.ok
    /\ isNonNullType(heap, last.arg)
    /\ heap[last.arg].ofType \in DOMAIN wrapperCache
    /\ "!" \in DOMAIN wrapperCache[heap[last.arg].ofType]
    /\ wrapperCache[heap[last.arg].ofType]["!"] = last.arg
    /\ last.arg \notin DOMAIN wrapperCache
    /\ \A r \in WrapperRefs(heap) : heap[r].ofType # last.arg

\* What the nested plain calls in the order of s return from v when every
\* wrapper on the way is in cache (Undefined when one is not).
RECURSIVE ChainIn(_, _, _, _)
ChainIn(cache, v, s, i) ==
    IF i > Len(s) THEN v
    ELSE IF v \in DOMAIN cache /\ s[i] \in DOMAIN cache[v]
         THEN ChainIn(cache, cache[v][s[i]], s, i + 1)
         ELSE Undefined

\* Every marker of s from position i on has its wrapper in cache, each an
\* instance of the marker's class in heap h wrapping the one before, the
\* first wrapping v.
RECURSIVE Stacked(_, _, _, _, _)
Stacked(cache, h, v, s, i) ==
    \/ i > Len(s)
    \/ /\ v \in DOMAIN cache
       /\ s[i] \in DOMAIN cache[v]
       /\ cache[v][s[i]] \in WrapperRefs(h)
       /\ h[cache[v][s[i]]].cls = ClsOf(s[i])
       /\ h[cache[v][s[i]]].ofType = v
       /\ Stacked(cache, h, cache[v][s[i]], s, i + 1)

\* The first position (counted from 1) of s whose marker cannot be applied
\* over a named type: a character outside the alphabet, or '!' right after
\* '!'; 0 when there is none.
FailAt(s) ==
    LET bad == {p \in 1..Len(s) :
                   \/ s[p] \notin {"]", "!"}
                   \/ p > 1 /\ s[p] = "!" /\ s[p - 1] = "!"}
    IN  IF bad = {} THEN 0 ELSE CHOOSE p \in bad : \A q \in bad : p <= q

\* The markers before the failing one.
PrefixOf(s) == SubSeq(s, 1, FailAt(s) - 1)

WrapFailed == last.op = "wrapType" /\ ~last.ok

\* The cache before a call already held the wrappers of the markers of s ahead
\* of the failing one.
PrefixCached(x, s) == ChainIn(wrapperCache, x, PrefixOf(s), 1) # Undefined

\* A call that ended with the record l1, the cache c1 and the heap h1, seen
\* from the state it started in.  What C12 says of it, whichever way its last
\* sentence is read: nothing leaves the cache; a wrapType(X, S) that throws has
\* a failing marker or an empty S; when the failing marker is not the first,
\* the wrappers of the markers before it are in the cache afterwards, one over
\* the other from X, and were made by this call when they were not there
\* before; a successful wrapType over that prefix right after a failed one
\* returns the same instance.
NotAtomicStep(c1, h1, l1) ==
    /\ c1 = wrapperCache \/ CacheWithin(wrapperCache, c1)
    /\ (l1.op = "wrapType" /\ ~l1.ok) =>
          /\ l1.spec # <<>> => FailAt(l1.spec) >= 1
          /\ FailAt(l1.spec) > 1 =>
                /\ Stacked(c1, h1, l1.arg, PrefixOf(l1.spec), 1)
                /\ ~PrefixCached(l1.arg, l1.spec) => Len(h1) > Len(heap)
    /\ (WrapFailed /\ FailAt(last.spec) > 1 /\ l1.op = "wrapType" /\ l1.ok
            /\ l1.arg = last.arg /\ l1.spec = PrefixOf(last.spec))
          => l1.res = ChainIn(wrapperCache, last.arg, PrefixOf(last.spec), 1)

\* The last sentence of C12 as claimed, of a call that ended with l1 and c1.
UnchangedOnlyAtFirstMarker(c1, l1) ==
    (l1.op = "wrapType" /\ ~l1.ok)
        => (c1 = wrapperCache <=> FailAt(l1.spec) <= 1)

\* The last sentence of C12 as amended, of a call that ended with l1 and c1.
UnchangedWhenNothingMade(c1, l1) ==
    (l1.op = "wrapType" /\ ~l1.ok)
        => (c1 = wrapperCache
               <=> (FailAt(l1.spec) <= 1 \/ PrefixCached(l1.arg, l1.spec)))

\* C12 (as claimed): wrapType is not atomic on failure, and a wrapType that
\* throws leaves the cache unchanged only when it fails at the first marker
\* or on the empty wrapSpec.
C12_UnchangedOnlyAtFirstMarker ==
    [][ \A c1 \in {wrapperCache'}, h1 \in {heap'}, l1 \in {last'} :
            /\ NotAtomicStep(c1, h1, l1)
            /\ UnchangedOnlyAtFirstMarker(c1, l1) ]_vars

\* C12 (amended): wrapType is not atomic on failure, and a wrapType that
\* throws leaves the cache unchanged exactly when it fails at the first
\* marker or on the empty wrapSpec, or when the wrappers of the markers
\* before the failing one were all in the cache already.
C12_NotAtomicOnFailure ==
    [][ \A c1 \in {wrapperCache'}, h1 \in {heap'}, l1 \in {last'} :
            /\ NotAtomicStep(c1, h1, l1)
            /\ UnchangedWhenNothingMade(c1, l1) ]_vars

\* wrapType(X, ']!x') has thrown at its third marker, and the NonNull of the
\* List of X is the newest instance and sits in the cache.
C12_Witness ==
    /\ WrapFailed
    /\ last.spec = <<"]", "!", "x">>
    /\ FailAt(last.spec) = 3
    /\ ChainIn(wrapperCache, last.arg, <<"]", "!">>, 1) = Len(heap)
    /\ isNonNullType(heap, Len(heap))

====
